---- MODULE Spec2Model ----
(***************************************************************************)
(* A state-machine model of Translatiner's queue-driven processing:        *)
(*   - FileQueue            (src/src/models/file_queue.py)                 *)
(*   - FileQueueWidget      (src/src/ui/file_queue.py)                     *)
(*   - MainWindow and ProcessingWorker (src/src/ui/main_window.py)         *)
(*   - AudioPlayer          (src/src/ui/audio_player.py)                   *)
(*   - SubtitleManager      (src/src/services/subtitle_manager.py)         *)
(*   - Translator           (src/src/services/translator.py)               *)
(*   - LanguageSelector     (src/src/ui/language_selector.py)              *)
(* Python indices are kept 0-based; At(items, i) reads items[i].           *)
(***************************************************************************)
EXTENDS Integers, Sequences, FiniteSets, TLC

\* ------------------------------------------------------------------ bounds
\* Number of distinct well-formed audio paths the user can pick.
NumStems == 2
\* Number of distinct well-formed audio paths handed to FileQueue when its
\* operations are called directly.
QueueStems == 1
\* Longest list of paths handed to one add_files call.
MaxAddLen == 2
\* Edits of the queue by the user (add, remove, drop, click) per behaviour of
\* Spec and SpecAuto.
MaxOps == 2
\* Edits of the queue by the user per behaviour of SpecLive.
MaxLiveOps == 3
\* Number of distinct audio files the user can pick in SpecCache, and edits of
\* the queue per behaviour of SpecCache.
CacheStems == 6
MaxCacheOps == 3
\* Edits of the queue by the user per behaviour of SpecReAdd.
MaxReAddOps == 3
\* Segment times run over 0..MaxTime ticks; segment lists of any shape have up
\* to MaxSegments segments, ordered lists one more.
MaxTime == 3
MaxSegments == 2
\* Longest list of segments handed to translate_batch.
MaxBatchLen == 21
\* The texts a reply of the backend can carry are 0..NumTexts, and the prompts
\* handed to _call_ollama 1..NumPrompts.
NumTexts == 3
NumPrompts == 2

\* ------------------------------------------------------- program constants
MAX_FILES == 5
\* translate_batch's batch size and _call_ollama's default number of attempts.
BATCH_SIZE == 10
max_retries == 3
SUPPORTED_FORMATS == {".wav", ".mp3"}

PENDING == "pending"
PROCESSING == "processing"
READY == "ready"
PLAYING == "playing"
COMPLETED == "completed"
FileState == {PENDING, PROCESSING, READY, PLAYING, COMPLETED}

\* Python's None, where a path may stand.
None == [none |-> TRUE]

\* ------------------------------------------------------------------- paths
\* A path is its stem and its extension, the two parts os.path.splitext gives.
ExtOf(s) == IF s % 3 = 1 THEN ".wav" ELSE IF s % 3 = 2 THEN ".MP3" ELSE ".mp3"
AudioPaths == {[stem |-> s, ext |-> ExtOf(s)] : s \in 1..NumStems}
OtherPaths == {[stem |-> 0, ext |-> ".txt"]}
AllPaths == AudioPaths \cup OtherPaths
QueuePaths == {[stem |-> s, ext |-> ExtOf(s)] : s \in 1..QueueStems} \cup OtherPaths
CachePaths == {[stem |-> s, ext |-> ExtOf(s)] : s \in 1..CacheStems}

\* str.lower() on the extensions in use.
lower(e) == CASE e = ".WAV" -> ".wav" [] e = ".MP3" -> ".mp3" [] e = ".TXT" -> ".txt" [] OTHER -> e

_is_valid_format(file_path) == lower(file_path.ext) \in SUPPORTED_FORMATS

\* --------------------------------------------------------------- sequences
At(s, i) == s[i + 1]
InRange(i, s) == 0 <= i /\ i < Len(s)
\* list.pop(i)
Pop(s, i) == [k \in 1..(Len(s) - 1) |-> IF k <= i THEN s[k] ELSE s[k + 1]]
\* list.insert(i, x), for 0 <= i <= len
Insert(s, i, x) == [k \in 1..(Len(s) + 1) |-> IF k <= i THEN s[k] ELSE IF k = i + 1 THEN x ELSE s[k - 1]]
\* Sequences over S of length lo..hi.
SeqsOf(S, lo, hi) == UNION {[1..n -> S] : n \in lo..hi}
NoDup(s) == \A i, j \in 1..Len(s) : s[i] = s[j] => i = j

\* ----------------------------------------------------------------- state
VARIABLES
    items,            \* FileQueue._items: sequence of [file_path, state]
    current_index,    \* FileQueue._current_index
    subtitle_cache,   \* MainWindow._subtitle_cache: path -> SubtitleManager
    auto_processing,  \* MainWindow._auto_processing
    worker,           \* MainWindow._worker: the ProcessingWorker referenced, or None
    threads,          \* ProcessingWorker threads that are alive (isRunning)
    events,           \* worker signals queued to the foreground event loop
    audio_player,     \* AudioPlayer: media source, playback state, visibility
    nops,             \* user input events so far
    run,              \* one execution of ProcessingWorker.run: position and signals emitted
    caption,          \* one SubtitleManager and the last query of its caption index
    batch,            \* one call of Translator.translate_batch
    call,             \* one call of Translator._call_ollama: attempts and waits
    prefs             \* one LanguageSelector and the preference file it loads

vars == <<items, current_index, subtitle_cache, auto_processing, worker, threads, events, audio_player, nops, run, caption, batch, call, prefs>>

\* ------------------------------------------------------------- FileQueue
\* The queue object: q = [items, current_index]. Every operation returns the
\* queue after the call and the call's return value.
Q(its, ci) == [items |-> its, current_index |-> ci]
PlaylistItem(path) == [file_path |-> path, state |-> PENDING]

is_full(q) == Len(q.items) >= MAX_FILES

current_file(q) == IF 0 <= q.current_index /\ q.current_index < Len(q.items) THEN At(q.items, q.current_index).file_path ELSE None

has_next(q) == q.current_index < Len(q.items) - 1

RECURSIVE add_loop(_, _, _, _)
add_loop(q, file_paths, k, added) ==
    IF k > Len(file_paths) THEN [q |-> q, ret |-> added]
    ELSE IF is_full(q) THEN [q |-> q, ret |-> added]
    ELSE IF ~_is_valid_format(file_paths[k]) THEN add_loop(q, file_paths, k + 1, added)
    ELSE add_loop([q EXCEPT !.items = Append(q.items, PlaylistItem(file_paths[k]))], file_paths, k + 1, added + 1)

\* add_files returning the number of paths given instead of the number added.
add_files_count_given(q, file_paths) == [q |-> add_loop(q, file_paths, 1, 0).q, ret |-> Len(file_paths)]

add_files(q, file_paths) == add_loop(q, file_paths, 1, 0)

\* remove_file without the repair of the cursor.
remove_file_no_repair(q, index) ==
    IF ~InRange(index, q.items) THEN [q |-> q, ret |-> FALSE]
    ELSE [q |-> Q(Pop(q.items, index), q.current_index), ret |-> TRUE]

\* remove_file stepping the cursor back also when its own item is removed.
remove_file_step_back(q, index) ==
    IF ~InRange(index, q.items) THEN [q |-> q, ret |-> FALSE]
    ELSE LET its == Pop(q.items, index)
             ci == IF q.current_index >= Len(its) THEN Len(its) - 1
                   ELSE IF index <= q.current_index THEN q.current_index - 1
                   ELSE q.current_index
         IN [q |-> Q(its, ci), ret |-> TRUE]

remove_file(q, index) ==
    IF ~InRange(index, q.items) THEN [q |-> q, ret |-> FALSE]
    ELSE LET its == Pop(q.items, index)
             ci == IF q.current_index >= Len(its) THEN Len(its) - 1
                   ELSE IF index < q.current_index THEN q.current_index - 1
                   ELSE q.current_index
         IN [q |-> Q(its, ci), ret |-> TRUE]

\* move_file without the adjustment of the cursor.
move_file_no_track(q, from_index, to_index) ==
    IF ~InRange(from_index, q.items) THEN [q |-> q, ret |-> FALSE]
    ELSE IF ~InRange(to_index, q.items) THEN [q |-> q, ret |-> FALSE]
    ELSE IF from_index = to_index THEN [q |-> q, ret |-> TRUE]
    ELSE [q |-> [q EXCEPT !.items = Insert(Pop(q.items, from_index), to_index, At(q.items, from_index))],
          ret |-> TRUE]

\* move_file exchanging the two items instead of pop and insert.
move_file_swap(q, from_index, to_index) ==
    IF ~InRange(from_index, q.items) THEN [q |-> q, ret |-> FALSE]
    ELSE IF ~InRange(to_index, q.items) THEN [q |-> q, ret |-> FALSE]
    ELSE IF from_index = to_index THEN [q |-> q, ret |-> TRUE]
    ELSE LET its == [q.items EXCEPT ![from_index + 1] = At(q.items, to_index),
                                    ![to_index + 1] = At(q.items, from_index)]
             c == q.current_index
             ci == IF c = from_index THEN to_index
                   ELSE IF from_index < c /\ c <= to_index THEN c - 1
                   ELSE IF to_index <= c /\ c < from_index THEN c + 1
                   ELSE c
         IN [q |-> Q(its, ci), ret |-> TRUE]

move_file(q, from_index, to_index) ==
    IF ~InRange(from_index, q.items) THEN [q |-> q, ret |-> FALSE]
    ELSE IF ~InRange(to_index, q.items) THEN [q |-> q, ret |-> FALSE]
    ELSE IF from_index = to_index THEN [q |-> q, ret |-> TRUE]
    ELSE LET its == Insert(Pop(q.items, from_index), to_index, At(q.items, from_index))
             c == q.current_index
             ci == IF c = from_index THEN to_index
                   ELSE IF from_index < c /\ c <= to_index THEN c - 1
                   ELSE IF to_index <= c /\ c < from_index THEN c + 1
                   ELSE c
         IN [q |-> Q(its, ci), ret |-> TRUE]

\* get_next_file returning the next path without moving the cursor.
get_next_file_peek(q) ==
    IF has_next(q)
    THEN [q |-> q, ret |-> At(q.items, q.current_index + 1).file_path]
    ELSE [q |-> q, ret |-> None]

get_next_file(q) ==
    IF has_next(q)
    THEN [q |-> [q EXCEPT !.current_index = q.current_index + 1], ret |-> At(q.items, q.current_index + 1).file_path]
    ELSE [q |-> q, ret |-> None]

\* set_current_index accepting the position after the last item.
set_current_index_past_end(q, index) ==
    IF ~(0 <= index /\ index <= Len(q.items)) THEN [q |-> q, ret |-> FALSE]
    ELSE [q |-> [q EXCEPT !.current_index = index], ret |-> TRUE]

set_current_index(q, index) ==
    IF ~InRange(index, q.items) THEN [q |-> q, ret |-> FALSE]
    ELSE [q |-> [q EXCEPT !.current_index = index], ret |-> TRUE]

\* set_file_state without the demotion of the other Processing items.
set_file_state_no_demotion(q, index, state) ==
    IF ~InRange(index, q.items) THEN [q |-> q, ret |-> FALSE]
    ELSE [q |-> [q EXCEPT !.items[index + 1].state = state], ret |-> TRUE]

\* set_file_state demoting the other Processing items whatever state it writes.
set_file_state_demote_always(q, index, state) ==
    IF ~InRange(index, q.items) THEN [q |-> q, ret |-> FALSE]
    ELSE LET demoted == [k \in 1..Len(q.items) |->
                            IF k - 1 # index /\ q.items[k].state = PROCESSING
                            THEN [q.items[k] EXCEPT !.state = PENDING]
                            ELSE q.items[k]]
         IN [q |-> [q EXCEPT !.items = [demoted EXCEPT ![index + 1].state = state]], ret |-> TRUE]

set_file_state(q, index, state) ==
    IF ~InRange(index, q.items) THEN [q |-> q, ret |-> FALSE]
    ELSE LET demoted == [k \in 1..Len(q.items) |->
                            IF state = PROCESSING /\ k - 1 # index /\ q.items[k].state = PROCESSING
                            THEN [q.items[k] EXCEPT !.state = PENDING]
                            ELSE q.items[k]]
         IN [q |-> [q EXCEPT !.items = [demoted EXCEPT ![index + 1].state = state]], ret |-> TRUE]

clear(q) == [q |-> Q(<<>>, -1), ret |-> None]


\* ------------------------------------------------------------ AudioPlayer
\* player = [source, state, visible]: the QMediaPlayer's source and playback
\* state ("stopped", "playing", "paused") and the widget's visibility.
\* Every audio path is a file on disk (os.path.exists).
exists(file_path) == file_path \in AudioPaths \cup CachePaths

player_stop(player) == [player EXCEPT !.state = "stopped"]

player_load_file(player, file_path) ==
    IF file_path = None \/ ~exists(file_path) THEN player
    ELSE [player_stop(player) EXCEPT !.source = file_path]

player_play(player) ==
    IF player.source = None THEN player
    ELSE [player EXCEPT !.state = "playing"]

player_pause(player) == [player EXCEPT !.state = "paused"]

_toggle_play_pause(player) ==
    IF player.state = "playing" THEN player_pause(player) ELSE player_play(player)

\* ------------------------------------------------------------- MainWindow
\* The window: w = [q, cache, auto, worker, threads, events, player].
\* A handler is an operator from the window before it to the window after it.
\* worker is the ProcessingWorker self._worker refers to. A thread is marked
\* cur while it belongs to that object. A queued signal is marked CURRENT while
\* it does, TERMINATED once its thread has been terminated, and REPLACED once
\* self._worker refers to a new object without its thread having been
\* terminated.
NoWorker == [file_path |-> None]
CURRENT == "current"
TERMINATED == "terminated"
REPLACED == "replaced"

\* A thread just started: the file it processes, whether run() has emitted its
\* last signal, and, kept while it lives, two facts about its creation: whether
\* the file had a cache entry, and whether a running thread was terminated to
\* make way for it.
Thread(file_path, cached, preempted) ==
    [file_path |-> file_path, cur |-> TRUE, emitted |-> FALSE, cached |-> cached, preempted |-> preempted]

isRunning(w) == \E t \in w.threads : t.cur

\* The marks of the queued signals of the current worker become mark.
remark(w, mark) ==
    [w EXCEPT !.events = [k \in 1..Len(w.events) |->
        IF w.events[k].run = CURRENT THEN [w.events[k] EXCEPT !.run = mark] ELSE w.events[k]]]

\* QThread.terminate() followed by wait(): the thread is no longer alive. The
\* signals it has emitted stay queued.
terminate_and_wait(w) == remark([w EXCEPT !.threads = {t \in w.threads : ~t.cur}], TERMINATED)

\* self._worker = ProcessingWorker(...): what belonged to the object referenced
\* before belongs to the current worker no longer.
superseded(w) ==
    remark([w EXCEPT !.threads = {[t EXCEPT !.cur = FALSE] : t \in w.threads}], REPLACED)

_show_progress(w) == [w EXCEPT !.player.visible = FALSE]
_show_result(w) == [w EXCEPT !.player.visible = TRUE]

put(cache, file_path, manager) ==
    [p \in DOMAIN cache \cup {file_path} |-> IF p = file_path THEN manager ELSE cache[p]]

\* _start_processing without the terminate() and wait() of the running worker.
_start_processing_no_terminate(w, file_path) ==
    LET w1 == [w EXCEPT !.player = player_stop(w.player)]
        w3 == _show_progress(w1)
        w4 == [w3 EXCEPT !.q = set_file_state(w3.q, w3.q.current_index, PROCESSING).q]
        w5 == superseded(w4)
    IN [w5 EXCEPT !.worker = [file_path |-> file_path],
                  !.threads = w5.threads \cup {Thread(file_path, file_path \in DOMAIN w5.cache, FALSE)}]

_start_processing(w, file_path) ==
    LET w1 == [w EXCEPT !.player = player_stop(w.player)]
        w2 == IF w1.worker # NoWorker /\ isRunning(w1) THEN terminate_and_wait(w1) ELSE w1
        w3 == _show_progress(w2)
        w4 == [w3 EXCEPT !.q = set_file_state(w3.q, w3.q.current_index, PROCESSING).q]
        w5 == superseded(w4)
    IN [w5 EXCEPT !.worker = [file_path |-> file_path],
                  !.threads = w5.threads \cup {Thread(file_path, file_path \in DOMAIN w5.cache, w2.threads # w1.threads)}]

\* _load_from_cache taking the entry out of the cache as it reads it.
_load_from_cache_evicting(w, file_path) ==
    _show_result([w EXCEPT !.player = player_load_file(w.player, file_path),
                           !.cache = [p \in (DOMAIN w.cache) \ {file_path} |-> w.cache[p]]])

_load_from_cache(w, file_path) ==
    _show_result([w EXCEPT !.player = player_load_file(w.player, file_path)])

_on_file_selected(w, file_path) ==
    IF file_path \in DOMAIN w.cache THEN _load_from_cache(w, file_path)
    ELSE _start_processing(w, file_path)

\* The index of the first Pending item, or -1: the scan by state, not by cache.
first_unprocessed_by_state(w) ==
    LET idx == {i \in 0..(Len(w.q.items) - 1) : At(w.q.items, i).state = PENDING}
    IN IF idx = {} THEN -1 ELSE CHOOSE i \in idx : \A j \in idx : i <= j

\* The index of the first item with no cache entry, or -1.
first_unprocessed(w) ==
    LET idx == {i \in 0..(Len(w.q.items) - 1) : At(w.q.items, i).file_path \notin DOMAIN w.cache}
    IN IF idx = {} THEN -1 ELSE CHOOSE i \in idx : \A j \in idx : i <= j

_start_auto_processing(w) ==
    LET i == first_unprocessed(w)
    IN IF i = -1 THEN [w EXCEPT !.auto = FALSE]
       ELSE LET w1 == [w EXCEPT !.auto = TRUE, !.q = set_current_index(w.q, i).q]
            IN _start_processing(w1, At(w.q.items, i).file_path)

\* _process_next_unprocessed ending auto mode without scanning the queue.
_process_next_unprocessed_no_scan(w) == [w EXCEPT !.auto = FALSE]

_process_next_unprocessed(w) ==
    LET i == first_unprocessed(w)
    IN IF i = -1 THEN [w EXCEPT !.auto = FALSE]
       ELSE LET w1 == [w EXCEPT !.q = set_current_index(w.q, i).q]
            IN _start_processing(w1, At(w.q.items, i).file_path)

\* _on_queue_changed doing nothing.
_on_queue_changed_ignored(w, file_paths) == w

_on_queue_changed(w, file_paths) ==
    IF ~w.auto /\ file_paths # <<>> THEN _start_auto_processing(w) ELSE w

_on_complete(w, manager) ==
    LET cf == current_file(w.q)
        w1 == IF cf # None THEN [w EXCEPT !.cache = put(w.cache, cf, manager)] ELSE w
        w2 == _show_result([w1 EXCEPT !.player = player_load_file(w1.player, cf)])
        w3 == [w2 EXCEPT !.q = set_file_state(w2.q, w2.q.current_index, READY).q]
    IN IF w3.auto THEN _process_next_unprocessed(w3) ELSE w3

_on_error(w) ==
    IF w.auto THEN _process_next_unprocessed(w) ELSE w

\* _on_playback_finished skipping over the item after the current one.
_on_playback_finished_skip(w) ==
    LET w1 == [w EXCEPT !.q = set_file_state(w.q, w.q.current_index, COMPLETED).q]
        nxt == get_next_file(get_next_file(w1.q).q)
        w2 == [w1 EXCEPT !.q = nxt.q]
    IN IF nxt.ret # None THEN _start_processing(w2, nxt.ret) ELSE w2

_on_playback_finished(w) ==
    LET w1 == [w EXCEPT !.q = set_file_state(w.q, w.q.current_index, COMPLETED).q]
        nxt == get_next_file(w1.q)
        w2 == [w1 EXCEPT !.q = nxt.q]
    IN IF nxt.ret # None THEN _start_processing(w2, nxt.ret) ELSE w2

\* --------------------------------------------------------- FileQueueWidget
_get_file_paths(q) == [k \in 1..Len(q.items) |-> q.items[k].file_path]

widget_add_files(w, file_paths) ==
    LET r == add_files(w.q, file_paths)
    IN IF r.ret > 0
       THEN LET w1 == _on_queue_changed([w EXCEPT !.q = r.q], _get_file_paths(r.q))
            IN IF Len(w1.q.items) = r.ret
               THEN LET w2 == [w1 EXCEPT !.q = set_current_index(w1.q, 0).q]
                    IN _on_file_selected(w2, current_file(w2.q))
               ELSE w1
       ELSE w

\* FileQueueWidget.remove_file leaving no item selected.
widget_remove_file_unselect(w, index) ==
    LET r == remove_file(w.q, index)
    IN IF r.ret
       THEN _on_queue_changed([w EXCEPT !.q = [r.q EXCEPT !.current_index = -1]], _get_file_paths(r.q))
       ELSE w

widget_remove_file(w, index) ==
    LET r == remove_file(w.q, index)
    IN IF r.ret THEN _on_queue_changed([w EXCEPT !.q = r.q], _get_file_paths(r.q)) ELSE w

widget_move_file(w, from_index, to_index) ==
    LET r == move_file(w.q, from_index, to_index)
    IN IF r.ret THEN _on_queue_changed([w EXCEPT !.q = r.q], _get_file_paths(r.q)) ELSE w

_on_item_clicked(w, index) ==
    IF index # w.q.current_index
    THEN LET r == set_current_index(w.q, index)
         IN IF r.ret THEN _on_file_selected([w EXCEPT !.q = r.q], current_file(r.q)) ELSE w
    ELSE w

_calculate_drop_index(source_index, drop_target_index, drop_position) ==
    IF drop_target_index = -1 THEN -1
    ELSE LET t1 == IF drop_position = "right" THEN drop_target_index + 1 ELSE drop_target_index
         IN IF source_index < t1 THEN t1 - 1 ELSE t1

dropEvent(w, source_index, drop_target_index, drop_position) ==
    LET target_index == _calculate_drop_index(source_index, drop_target_index, drop_position)
    IN IF target_index # source_index /\ target_index # -1
       THEN widget_move_file(w, source_index, target_index)
       ELSE w

\* ------------------------------------------------------------------- Init
\* ------------------------------------------------------ ProcessingWorker
\* One execution of ProcessingWorker.run, statement by statement. A progress
\* fraction is counted in thousandths: 0.05 is 50 and 1.0 is 1000.
SUPPORTED_LANGUAGES == {"ja", "en", "ko", "zh"}

NoRun == [pc |-> "idle", file_path |-> None, source_lang |-> "", segments |-> 0, log |-> <<>>]

\* ProcessingWorker(file_path, source_lang, target_lang), about to enter run().
ProcessingWorker(file_path, source_lang) ==
    [pc |-> "start", file_path |-> file_path, source_lang |-> source_lang, segments |-> 0, log |-> <<>>]

\* pyqtSignal.emit: the signal joins those this run has emitted.
emit(r, kind, value) == [r EXCEPT !.log = Append(@, [kind |-> kind, value |-> value])]
progress_updated(r, value) == emit(r, "progress_updated", value)
goto(r, pc) == [r EXCEPT !.pc = pc]

\* recognition_progress without the scaling into the recognition stage.
recognition_progress_unscaled(r, p) == progress_updated(r, p)

\* recognition_progress: overall = 0.1 + p * 0.6
recognition_progress(r, p) == progress_updated(r, 100 + (p * 6) \div 10)

\* SpeechRecognizer._report_progress: min(1.0, max(0.0, progress)) to the callback.
clamp(progress) == IF progress < 0 THEN 0 ELSE IF progress > 1000 THEN 1000 ELSE progress
_report_progress(r, progress) == recognition_progress(r, clamp(progress))

\* processing_error without the return after it where no speech was recognised.
processing_error_no_return(r) ==
    goto(emit(r, "processing_error", -1), IF r.pc = "segments" THEN "translate_batch" ELSE "done")

\* processing_error.emit, from the except clauses or for an empty recognition;
\* run() returns.
processing_error(r) == goto(emit(r, "processing_error", -1), "done")

\* processing_complete.emit(manager), the last statement of run().
processing_complete(r) == goto(emit(r, "processing_complete", -1), "done")

\* The calls of run() and of recognize() that can raise, by position. The
\* conversion to WAV is made for a file whose extension is not .wav.
Raising(r) ==
    {"load_file", "recognize", "_load_model", "transcribe", "_convert_segments", "translate_batch"}
        \cup (IF lower(r.file_path.ext) # ".wav" THEN {"_convert_to_wav"} ELSE {})

\* run() without the test for an empty recognition.
step_no_empty_test(r, segments) ==
    CASE r.pc = "start" -> goto(progress_updated(r, 50), "load_file")
      [] r.pc = "load_file" -> goto(progress_updated(r, 100), "recognize")
      [] r.pc = "recognize" -> goto(_report_progress(r, 100), "_load_model")
      [] r.pc = "_load_model" -> goto(_report_progress(_report_progress(r, 200), 250), "_convert_to_wav")
      [] r.pc = "_convert_to_wav" -> goto(_report_progress(r, 300), "transcribe")
      [] r.pc = "transcribe" -> goto(_report_progress(r, 900), "_convert_segments")
      [] r.pc = "_convert_segments" ->
            goto([_report_progress(r, 1000) EXCEPT !.segments = segments], "segments")
      [] r.pc = "segments" -> goto(progress_updated(r, 750), "translate_batch")
      [] r.pc = "translate_batch" -> goto(progress_updated(r, 950), "SubtitleManager")
      [] r.pc = "SubtitleManager" -> goto(progress_updated(r, 1000), "processing_complete")
      [] r.pc = "processing_complete" -> processing_complete(r)

\* run() from position r.pc up to the next call, the call at r.pc having
\* returned; segments is the number of segments _convert_segments returns.
step(r, segments) ==
    CASE r.pc = "start" -> goto(progress_updated(r, 50), "load_file")
      [] r.pc = "load_file" -> goto(progress_updated(r, 100), "recognize")
      [] r.pc = "recognize" -> goto(_report_progress(r, 100), "_load_model")
      [] r.pc = "_load_model" -> goto(_report_progress(_report_progress(r, 200), 250), "_convert_to_wav")
      [] r.pc = "_convert_to_wav" -> goto(_report_progress(r, 300), "transcribe")
      [] r.pc = "transcribe" -> goto(_report_progress(r, 900), "_convert_segments")
      [] r.pc = "_convert_segments" ->
            goto([_report_progress(r, 1000) EXCEPT !.segments = segments], "segments")
      [] r.pc = "segments" ->
            IF r.segments = 0 THEN processing_error(r)
            ELSE goto(progress_updated(r, 750), "translate_batch")
      [] r.pc = "translate_batch" -> goto(progress_updated(r, 950), "SubtitleManager")
      [] r.pc = "SubtitleManager" -> goto(progress_updated(r, 1000), "processing_complete")
      [] r.pc = "processing_complete" -> processing_complete(r)

\* ------------------------------------------------------- SubtitleManager
\* A segment is [start_time, end_time]; the times are counted in ticks of half
\* a second. The manager holds the list it was built from.
Segments == [start_time : 0..MaxTime, end_time : 0..MaxTime]

NoCaption == [loaded |-> FALSE, segments |-> <<>>, time |-> -1, index |-> -1]

\* SubtitleManager(segments)
SubtitleManager(segments) == [loaded |-> TRUE, segments |-> segments, time |-> -1, index |-> -1]

\* The for loop of get_current_index, from index i on.
RECURSIVE scan(_, _, _)
scan(segments, current_time, i) ==
    IF i >= Len(segments) THEN -1
    ELSE IF At(segments, i).start_time <= current_time /\ current_time < At(segments, i).end_time THEN i
    ELSE scan(segments, current_time, i + 1)

\* get_current_index with the end of a segment counted in.
get_current_index_closed(segments, current_time) ==
    LET hits == {i \in 0..(Len(segments) - 1) :
                    At(segments, i).start_time <= current_time /\ current_time <= At(segments, i).end_time}
    IN IF hits = {} THEN -1 ELSE CHOOSE i \in hits : \A j \in hits : i <= j

\* get_current_index with the scan starting at the second segment.
get_current_index_from_second(segments, current_time) ==
    IF segments = <<>> THEN -1
    ELSE scan(segments, current_time, 1)

get_current_index(segments, current_time) ==
    IF segments = <<>> THEN -1
    ELSE scan(segments, current_time, 0)

\* ------------------------------------------------------------ Translator
\* One call of translate_batch: the arguments, the position of the loop over
\* the batches, the results gathered, what each call of _call_ollama came to
\* and the requests sent to the backend.
NoBatch ==
    [pc |-> "idle", segments |-> <<>>, source_lang |-> "", target_lang |-> "",
     batch_start |-> 0, all_results |-> <<>>, outcomes |-> <<>>, calls |-> 0]

\* Texts are numbers: 0 is the empty string, 1 is a string of white space,
\* the others are strings of words. str.strip()
strip(text) == IF text = 1 THEN 0 ELSE text

\* The text the backend writes for a text it was given.
Translated(text) == text + 4

\* The transcript of n segments the recognizer hands over: segment k runs from
\* 2(k-1) to 2k-1 and carries one of the four kinds of text.
Transcript(n, language) ==
    [k \in 1..n |-> [start_time |-> 2 * (k - 1), end_time |-> 2 * k - 1,
                     text |-> k % 4, language |-> language]]

TranslationSegment(seg, translated_text, source_lang, target_lang) ==
    [start_time |-> seg.start_time, end_time |-> seg.end_time,
     original_text |-> seg.text, translated_text |-> translated_text,
     source_language |-> source_lang, target_language |-> target_lang]

\* should_translate answering yes for every pair of languages.
should_translate_always(source_lang, target_lang) == TRUE

should_translate(source_lang, target_lang) == source_lang # target_lang

\* The segments of a batch that get a numbered line "[i+1] text" in the prompt.
numbered(segments) == {i \in 0..(Len(segments) - 1) : strip(At(segments, i).text) # 0}

\* The numbered lines "[n] content" of a reply of the backend, in order:
\* a translation for every numbered line of the prompt; for the first one
\* only; every number one too high; every line and the first one again with
\* another content; or every line and then a line whose number has more
\* digits than int() converts (long).
ReplyKinds == {"full", "first", "shifted", "twice", "overlong"}
RECURSIVE Lines(_, _, _)
Lines(segments, i, shift) ==
    IF i >= Len(segments) THEN <<>>
    ELSE (IF i \in numbered(segments)
              THEN <<[n |-> i + 1 + shift, long |-> FALSE,
                      content |-> Translated(strip(At(segments, i).text))]>>
              ELSE <<>>) \o Lines(segments, i + 1, shift)
Reply(segments, kind) ==
    LET full == Lines(segments, 0, 0)
    IN IF kind = "full" THEN full
       ELSE IF kind = "shifted" THEN Lines(segments, 0, 1)
       ELSE IF kind = "overlong" THEN full \o <<[n |-> 0, long |-> TRUE, content |-> Translated(0)]>>
       ELSE IF full = <<>> THEN <<>>
       ELSE IF kind = "first" THEN <<Head(full)>>
       ELSE full \o <<[n |-> Head(full).n, long |-> FALSE, content |-> Translated(Head(full).content)]>>

\* _parse_numbered_text: the dictionary of the numbered lines, a later line
\* with the number of an earlier one replacing it. The first pass leaves out a
\* line whose number int() rejects (ValueError, caught). The second pass runs
\* when the dictionary has fewer entries than expected: it adds only numbers
\* that are not in the dictionary, and every line int() converts is in it
\* already, but its int() is not guarded, so a long number raises ValueError.
_parse_numbered_text(text, expected) ==
    LET short == SelectSeq(text, LAMBDA line : ~line.long)
        result == [n \in {short[k].n : k \in 1..Len(short)} |->
                    LET last == CHOOSE k \in 1..Len(short) :
                                    short[k].n = n /\ \A l \in 1..Len(short) : short[l].n = n => l <= k
                    IN short[last].content]
    IN [result |-> result,
        raised |-> /\ Cardinality(DOMAIN result) < expected
                   /\ \E k \in 1..Len(text) : text[k].long]

\* The dictionary _translate_single_batch works with: the parsed reply, or the
\* empty one after TranslatorError.
Parsed(segments, outcome) ==
    IF outcome.ok THEN _parse_numbered_text(Reply(segments, outcome.kind), Len(segments))
    ELSE [result |-> <<>>, raised |-> FALSE]

\* What a call of _call_ollama comes to: a reply at one of max_retries
\* attempts, or TranslatorError after max_retries failed attempts.
Outcomes ==
    {[ok |-> FALSE, attempts |-> max_retries, kind |-> "none"]}
        \cup [ok : {TRUE}, attempts : 1..max_retries, kind : ReplyKinds]

\* _translate_single_batch with the segments that got no numbered line left
\* out of the result.
_translate_single_batch_numbered_only(segments, source_lang, target_lang, outcome) ==
    LET parsed == Parsed(segments, outcome).result
        kept == SelectSeq(segments, LAMBDA seg : strip(seg.text) # 0)
    IN [k \in 1..Len(kept) |->
            TranslationSegment(kept[k], IF k \in DOMAIN parsed THEN parsed[k] ELSE kept[k].text,
                               source_lang, target_lang)]

\* The result of _translate_single_batch when it returns, given what its call
\* of _call_ollama comes to.
_translate_single_batch(segments, source_lang, target_lang, outcome) ==
    LET parsed == Parsed(segments, outcome).result
    IN [k \in 1..Len(segments) |->
            TranslationSegment(segments[k], IF k \in DOMAIN parsed THEN parsed[k] ELSE segments[k].text,
                               source_lang, target_lang)]

\* translate_batch up to its loop: done for an empty list and for one
\* language, otherwise at the first batch.
translate_batch(segments, source_lang, target_lang) ==
    LET b == [NoBatch EXCEPT !.segments = segments, !.source_lang = source_lang,
                             !.target_lang = target_lang]
    IN IF segments = <<>> THEN [b EXCEPT !.pc = "done"]
       ELSE IF ~should_translate(source_lang, target_lang)
           THEN [b EXCEPT !.pc = "done",
                          !.all_results = [k \in 1..Len(segments) |->
                              TranslationSegment(segments[k], segments[k].text, source_lang, target_lang)]]
       ELSE [b EXCEPT !.pc = "loop"]

\* One round of the loop of translate_batch, and the return after the last;
\* the ValueError of _parse_numbered_text is caught nowhere and ends the call.
translate_next_batch(b, outcome) ==
    LET batch_end == IF b.batch_start + BATCH_SIZE < Len(b.segments)
                        THEN b.batch_start + BATCH_SIZE ELSE Len(b.segments)
        batch_segments == SubSeq(b.segments, b.batch_start + 1, batch_end)
        batch_results == _translate_single_batch(batch_segments, b.source_lang, b.target_lang, outcome)
    IN IF Parsed(batch_segments, outcome).raised
       THEN [b EXCEPT !.outcomes = Append(@, outcome),
                      !.calls = @ + outcome.attempts,
                      !.pc = "raised"]
       ELSE
       [b EXCEPT !.all_results = @ \o batch_results,
                 !.outcomes = Append(@, outcome),
                 !.calls = @ + outcome.attempts,
                 !.batch_start = @ + BATCH_SIZE,
                 !.pc = IF b.batch_start + BATCH_SIZE < Len(b.segments) THEN "loop" ELSE "done"]

\* ------------------------------------------------------------ _call_ollama
\* One call of _call_ollama: the position (a request under way, the wait
\* after a failed one, returned, raised), the index of the loop, what every
\* attempt came to, the seconds waited after failed attempts, and the result.
NoCall == [pc |-> "idle", prompt |-> 0, attempt |-> 0, log |-> <<>>, waits |-> <<>>, result |-> 0]

\* What a request can come to: urlopen raises (connection refused, timeout),
\* the body is not JSON, the body is JSON but no object (.get raises
\* AttributeError), or the body is an object, with a "response" text or
\* without one. Texts are the numbers of strip.
Failures == {"refused", "timeout", "not_json", "not_object"}
NoFailure == "none"
Bodies == [failure : {NoFailure}, has_response : BOOLEAN, response : 0..NumTexts]
Attempts == [failure : Failures, has_response : {FALSE}, response : {0}] \cup Bodies

\* result.get("response", "").strip()
response_of(body) == IF body.has_response THEN strip(body.response) ELSE 0

\* The except branch raising TranslatorError one attempt late.
on_exception_late(c) ==
    IF c.attempt < max_retries
    THEN [c EXCEPT !.pc = "sleep", !.waits = Append(@, (c.attempt + 1) * 3)]
    ELSE [c EXCEPT !.pc = "raised"]

\* The except branch of an attempt: wait (attempt + 1) * 3 seconds before the
\* next one, or raise TranslatorError after the last.
on_exception(c) ==
    IF c.attempt < max_retries - 1
    THEN [c EXCEPT !.pc = "sleep", !.waits = Append(@, (c.attempt + 1) * 3)]
    ELSE [c EXCEPT !.pc = "raised"]

\* One round of the loop over range(max_retries), given what the request
\* comes to.
attempt_request(c, a) ==
    LET c1 == [c EXCEPT !.log = Append(@, a)]
    IN IF a.failure = NoFailure
       THEN [c1 EXCEPT !.pc = "returned", !.result = response_of(a)]
       ELSE on_exception(c1)

\* The loop goes on after the wait; when range(max_retries) is used up the
\* function ends without a return statement.
next_attempt(c) ==
    IF c.attempt + 1 < max_retries
    THEN [c EXCEPT !.pc = "request", !.attempt = @ + 1]
    ELSE [c EXCEPT !.pc = "fell_through", !.attempt = @ + 1]

\* --------------------------------------------------------- LanguageSelector
\* A language selector and the preference file at its path. A field of the
\* file's object is absent, a string, a number or a list.
OtherCodes == {"fr", "JA", ""}
Fields ==
    {[kind |-> "absent", code |-> ""], [kind |-> "number", code |-> ""], [kind |-> "list", code |-> ""]}
        \cup [kind : {"string"}, code : SUPPORTED_LANGUAGES \cup OtherCodes]
NoField == [kind |-> "absent", code |-> ""]
\* The file: missing; a directory or unreadable (open raises OSError); bytes
\* that are not UTF-8; text that is not JSON; JSON that is null, a list, a
\* number or a string; or a JSON object with its two fields.
PrefFiles ==
    [content : {"missing", "unreadable", "not_utf8", "not_json", "null", "list", "number", "string"},
     source_language : {NoField}, target_language : {NoField}]
        \cup [content : {"object"}, source_language : Fields, target_language : Fields]
NoPrefs ==
    [pc |-> "idle", file |-> [content |-> "missing", source_language |-> NoField, target_language |-> NoField],
     source_lang |-> "", target_lang |-> "", raised |-> "none"]

\* LanguageSelector.__init__ up to _load_preferences: the built-in defaults.
LanguageSelector(file) ==
    [pc |-> "init", file |-> file, source_lang |-> "ja", target_lang |-> "zh", raised |-> "none"]

\* prefs.get(key, default): the field's value, the default when absent.
get(field, default) == IF field.kind = "absent" THEN [kind |-> "string", code |-> default] ELSE field
\* value in SUPPORTED_LANGUAGES: a list cannot be hashed (TypeError), a number
\* is no key, a string is looked up.
unhashable(field) == field.kind = "list"
supported(field) == field.kind = "string" /\ field.code \in SUPPORTED_LANGUAGES

\* _load_preferences: json.JSONDecodeError and IOError are caught; the
\* UnicodeDecodeError of the read, the AttributeError of .get on a value that
\* is no object and the TypeError of the membership test are not. The source
\* is assigned before the target is tested.
_load_preferences(p) ==
    LET source == get(p.file.source_language, "ja")
        target == get(p.file.target_language, "zh")
        p1 == [p EXCEPT !.source_lang = IF supported(source) THEN source.code ELSE @]
    IN IF p.file.content \in {"missing", "unreadable", "not_json"} THEN [p EXCEPT !.pc = "loaded"]
       ELSE IF p.file.content = "not_utf8" THEN [p EXCEPT !.pc = "raised", !.raised = "UnicodeDecodeError"]
       ELSE IF p.file.content # "object" THEN [p EXCEPT !.pc = "raised", !.raised = "AttributeError"]
       ELSE IF unhashable(source) THEN [p EXCEPT !.pc = "raised", !.raised = "TypeError"]
       ELSE IF unhashable(target) THEN [p1 EXCEPT !.pc = "raised", !.raised = "TypeError"]
       ELSE [p1 EXCEPT !.pc = "loaded",
                       !.target_lang = IF supported(target) THEN target.code ELSE @]

Init ==
    /\ items = <<>>
    /\ current_index = -1
    /\ subtitle_cache = <<>>
    /\ auto_processing = FALSE
    /\ worker = NoWorker
    /\ threads = {}
    /\ events = <<>>
    /\ audio_player = [source |-> None, state |-> "stopped", visible |-> FALSE]
    /\ nops = 0
    /\ run = NoRun
    /\ caption = NoCaption
    /\ batch = NoBatch
    /\ call = NoCall
    /\ prefs = NoPrefs

\* ------------------------------------------- FileQueue called directly
\* The public operations of FileQueue, called in any order with any
\* arguments, in range or not.
Indices == -1..MAX_FILES
StatesSet == {PENDING, PROCESSING, READY}
window_vars == <<subtitle_cache, auto_processing, worker, threads, events, audio_player, nops, run, caption, batch, call, prefs>>

QueueCall(r) ==
    /\ items' = r.q.items
    /\ current_index' = r.q.current_index
    /\ UNCHANGED window_vars

CallAddFiles == \E file_paths \in SeqsOf(QueuePaths, 0, MaxAddLen) : QueueCall(add_files(Q(items, current_index), file_paths))
CallRemoveFile == \E index \in Indices : QueueCall(remove_file(Q(items, current_index), index))
CallMoveFile == \E from_index, to_index \in Indices : QueueCall(move_file(Q(items, current_index), from_index, to_index))
CallGetNextFile == QueueCall(get_next_file(Q(items, current_index)))
CallSetCurrentIndex == \E index \in Indices : QueueCall(set_current_index(Q(items, current_index), index))
CallSetFileState == \E index \in Indices, state \in StatesSet : QueueCall(set_file_state(Q(items, current_index), index, state))
CallClear == QueueCall(clear(Q(items, current_index)))

NextQueue ==
    \/ CallAddFiles
    \/ CallRemoveFile
    \/ CallMoveFile
    \/ CallGetNextFile
    \/ CallSetCurrentIndex
    \/ CallSetFileState
    \/ CallClear

SpecQueue == Init /\ [][NextQueue]_vars

\* C1: after any sequence of add, remove, move, setCurrent, nextAfterCurrent,
\* setState and clear calls starting from the empty queue, 0 <= len <= MAX = 5
\* and currentIndex is within [-1, len-1]; clear yields len = 0 and
\* currentIndex = -1.
C1_QueueBounds ==
    /\ 0 <= Len(items) /\ Len(items) <= MAX_FILES
    /\ -1 <= current_index /\ current_index <= Len(items) - 1
    /\ Len(clear(Q(items, current_index)).q.items) = 0
    /\ clear(Q(items, current_index)).q.current_index = -1

\* The queue is full and the cursor is on its last item.
C1_Witness == Len(items) = MAX_FILES /\ current_index = MAX_FILES - 1

\* C2: at every observation point at most one item of the queue has state
\* Processing, whatever setState, add, remove, move and clear calls came before.
ProcessingItems == {k \in 1..Len(items) : items[k].state = PROCESSING}

C2_SingleProcessing == Cardinality(ProcessingItems) <= 1

\* An item is Processing behind an item that was demoted to Pending and one
\* that is Ready.
C2_Witness ==
    \E k \in ProcessingItems : \E i, j \in 1..Len(items) :
        i < k /\ j < k /\ items[i].state = PENDING /\ items[j].state = READY

\* ------------------------------------------------- the window's event loop
\* The window as the variables hold it.
W == [q |-> Q(items, current_index), cache |-> subtitle_cache, auto |-> auto_processing,
      worker |-> worker, threads |-> threads, events |-> events, player |-> audio_player]

Handled(w) ==
    /\ items' = w.q.items
    /\ current_index' = w.q.current_index
    /\ subtitle_cache' = w.cache
    /\ auto_processing' = w.auto
    /\ worker' = w.worker
    /\ threads' = w.threads
    /\ events' = w.events
    /\ audio_player' = w.player
    /\ UNCHANGED <<run, caption, batch, call, prefs>>

\* An edit of the queue by the user; nops counts them. The transport buttons
\* change the player only and are not counted.
UserInput(limit) == nops < limit /\ nops' = nops + 1

\* The stems of the audio paths the program holds anywhere.
KnownStems ==
    {items[k].file_path.stem : k \in 1..Len(items)} \cup {p.stem : p \in DOMAIN subtitle_cache}
    \cup {subtitle_cache[p].source.stem : p \in DOMAIN subtitle_cache}
    \cup {t.file_path.stem : t \in threads} \cup {events[k].file_path.stem : k \in 1..Len(events)}
    \cup (IF audio_player.source = None THEN {} ELSE {audio_player.source.stem})

\* Audio files are numbered in the order the user first picks them: a file
\* new to the program is the lowest-numbered one it does not hold.
PickedInOrder(file_paths) ==
    \A k \in 1..Len(file_paths) :
        LET s == file_paths[k].stem
        IN s > 1 => (s - 1) \in KnownStems \cup {file_paths[j].stem : j \in 1..(k - 1)}

\* The add button is enabled while the queue is not full; the file dialog
\* returns a non-empty list of distinct files.
UserAdd(limit) ==
    /\ UserInput(limit)
    /\ ~is_full(Q(items, current_index))
    /\ \E file_paths \in SeqsOf(AllPaths, 1, MaxAddLen) :
        /\ NoDup(file_paths)
        /\ PickedInOrder(file_paths)
        /\ Handled(widget_add_files(W, file_paths))

\* Every item shown carries a remove button.
UserRemove(limit) ==
    /\ UserInput(limit)
    /\ \E index \in 0..(Len(items) - 1) : Handled(widget_remove_file(W, index))

\* An item is dragged and dropped on the left or right half of an item, or
\* with no drop target recorded.
UserDrop(limit) ==
    /\ UserInput(limit)
    /\ \E source_index \in 0..(Len(items) - 1), drop_target_index \in -1..(Len(items) - 1), drop_position \in {"left", "right"} :
        Handled(dropEvent(W, source_index, drop_target_index, drop_position))

UserClick(limit) ==
    /\ UserInput(limit)
    /\ \E index \in 0..(Len(items) - 1) : Handled(_on_item_clicked(W, index))

\* The transport buttons work once the player is shown with a file loaded.
ControlsUsable == audio_player.visible /\ audio_player.source # None

UserPlayPause ==
    /\ UNCHANGED nops
    /\ ControlsUsable
    /\ Handled([W EXCEPT !.player = _toggle_play_pause(audio_player)])

UserStop ==
    /\ UNCHANGED nops
    /\ ControlsUsable
    /\ Handled([W EXCEPT !.player = player_stop(audio_player)])

\* A click on a subtitle line seeks and plays.
UserSubtitleClick ==
    /\ UNCHANGED nops
    /\ audio_player.visible
    /\ Handled([W EXCEPT !.player = player_play(audio_player)])

\* The media reaches its end while playing: playback_finished is emitted.
EndOfMedia ==
    /\ audio_player.state = "playing"
    /\ Handled(_on_playback_finished([W EXCEPT !.player = player_stop(audio_player)]))
    /\ UNCHANGED nops

\* ProcessingWorker.run reaches its end: it emits processing_complete with the
\* SubtitleManager built from its file, or processing_error.
Manager(file_path) == [source |-> file_path]

\* run() emits its last signal, which is queued to the window's thread.
WorkerEmit(kind) ==
    \E t \in threads :
        /\ ~t.emitted
        /\ threads' = (threads \ {t}) \cup {[t EXCEPT !.emitted = TRUE]}
        /\ events' = Append(events, [kind |-> kind, file_path |-> t.file_path,
                                     run |-> IF t.cur THEN CURRENT ELSE REPLACED])
        /\ UNCHANGED <<items, current_index, subtitle_cache, auto_processing, worker, audio_player, nops, run, caption, batch, call, prefs>>

\* run() returns after its last signal: the thread is no longer running.
WorkerFinish ==
    \E t \in threads :
        /\ t.emitted
        /\ threads' = threads \ {t}
        /\ UNCHANGED <<items, current_index, subtitle_cache, auto_processing, worker, events, audio_player, nops, run, caption, batch, call, prefs>>

WorkerComplete == WorkerEmit("processing_complete")
WorkerError == WorkerEmit("processing_error")

\* The event loop delivers the oldest queued worker signal to its slot.
Deliver ==
    /\ events # <<>>
    /\ LET e == Head(events)
           w == [W EXCEPT !.events = Tail(events)]
       IN IF e.kind = "processing_complete"
          THEN Handled(_on_complete(w, Manager(e.file_path)))
          ELSE Handled(_on_error(w))
    /\ UNCHANGED nops

Next ==
    \/ UserAdd(MaxOps)
    \/ UserRemove(MaxOps)
    \/ UserDrop(MaxOps)
    \/ UserClick(MaxOps)
    \/ UserPlayPause
    \/ UserStop
    \/ UserSubtitleClick
    \/ EndOfMedia
    \/ WorkerComplete
    \/ WorkerError
    \/ WorkerFinish
    \/ Deliver

Spec == Init /\ [][Next]_vars

\* The queue edited by the user while the worker and the event loop make
\* progress: a started run() reaches its last signal and returns, and the
\* event loop delivers every queued signal.
NextLive ==
    \/ UserAdd(MaxLiveOps)
    \/ UserRemove(MaxLiveOps)
    \/ UserDrop(MaxLiveOps)
    \/ UserClick(MaxLiveOps)
    \/ WorkerComplete
    \/ WorkerError
    \/ WorkerFinish
    \/ Deliver

\* WF_vars(Deliver), with ENABLED <<Deliver>>_vars written out: a signal is
\* queued, and delivering it takes it off the queue.
DeliverFair == []<>(events = <<>>) \/ []<><<Deliver>>_vars

SpecLive ==
    Init /\ [][NextLive]_vars /\ WF_vars(WorkerComplete \/ WorkerError) /\ WF_vars(WorkerFinish) /\ DeliverFair

\* The same with every run succeeding.
NextAuto ==
    \/ UserAdd(MaxOps)
    \/ UserRemove(MaxOps)
    \/ UserDrop(MaxOps)
    \/ UserClick(MaxOps)
    \/ WorkerComplete
    \/ WorkerFinish
    \/ Deliver

SpecAuto ==
    Init /\ [][NextAuto]_vars /\ WF_vars(WorkerComplete) /\ WF_vars(WorkerFinish) /\ DeliverFair

\* ------------------------------------------------------ claims on the window
\* A step of the event loop that delivers the oldest queued signal.
Delivers(kind) == Len(events') < Len(events) /\ Head(events).kind = kind

\* C3: when the completion of a run started for identity X is handled, a cache
\* entry that is written or changed is the one keyed by X and holds the
\* segments produced from X, and an item that becomes Ready is X's item,
\* whatever the user did to the queue while the run was in flight.
C3_CompletionKeyedByRun ==
    [][Delivers("processing_complete") =>
        LET X == Head(events).file_path
        IN /\ \A p \in DOMAIN subtitle_cache' :
                (p \notin DOMAIN subtitle_cache \/ subtitle_cache'[p] # subtitle_cache[p])
                    => p = X /\ subtitle_cache'[p] = Manager(X)
           /\ \A k \in 1..Len(items) :
                (items'[k].state = READY /\ items[k].state # READY) => items[k].file_path = X]_vars

\* C4: no pipeline run is started for a file that has a cache entry.
C4_NoRunForCachedFile == \A t \in threads : ~t.cached

\* A run for file_path is in flight: its thread has not emitted its last signal.
InFlight(ts, file_path) == \E t \in ts : t.cur /\ ~t.emitted /\ t.file_path = file_path

\* C5: once a failure event has been handled no cache entry has been written,
\* the queue's bounds and the single-Processing invariant hold, and the item
\* that was being processed is not left Processing: it is Processing only if a
\* new run has been started for it.
C5_FailureLeavesItemIdle ==
    [][Delivers("processing_error") =>
        /\ subtitle_cache' = subtitle_cache
        /\ Len(items') <= MAX_FILES
        /\ -1 <= current_index' /\ current_index' <= Len(items') - 1
        /\ Cardinality({k \in 1..Len(items') : items'[k].state = PROCESSING}) <= 1
        /\ \A k \in 1..Len(items') :
                (items'[k].file_path = Head(events).file_path /\ items'[k].state = PROCESSING)
                    => InFlight(threads', items'[k].file_path)]_vars

\* C9: at most one pipeline run is in flight at any instant, and it is the
\* run of the worker the window refers to: a run in flight when processing
\* starts has been terminated before the new run exists.
C9_OneRunInFlight == Cardinality(threads) <= 1 /\ \A t \in threads : t.cur

\* A run is in flight that was started while another was, which was terminated
\* with its last signal already queued.
C9_Witness == \E t \in threads : t.preempted /\ \E k \in 1..Len(events) : events[k].run = TERMINATED

\* C10: signals are handled in the order they were queued, and no signal
\* emitted by a run that was terminated to start the next run is handled
\* afterwards, when the window attributes it to the item current by then.
C10_NoStaleEvent == [][Len(events') < Len(events) => Head(events).run # TERMINATED]_vars

\* ------------------------------------------------------ claims on auto mode
Queued(file_path) == \E k \in 1..Len(items) : items[k].file_path = file_path
Cached(file_path) == file_path \in DOMAIN subtitle_cache
OpCounts == 0..(MaxOps + MaxLiveOps)

\* C6: in auto mode, when the failure of a run for X waits to be handled and
\* the queue holds another file Y with no cache entry, then, unless the user
\* edits the queue, a run for Y is eventually started, however often X fails.
C6_FailureMovesOn ==
    \A y \in AudioPaths : \A n \in OpCounts :
        (/\ nops = n /\ auto_processing /\ Queued(y) /\ ~Cached(y)
         /\ events # <<>> /\ Head(events).kind = "processing_error" /\ Head(events).file_path # y)
        ~> (nops # n \/ InFlight(threads, y))

\* Auto mode has made the first n items Ready, each with its cache entry, and
\* is at item n: the only run in flight, or the only signal queued, is that of
\* item n, and the items after it are Pending with no cache entry. The items
\* are distinct files.
AutoAt(n) ==
    /\ auto_processing
    /\ NoDup(_get_file_paths(Q(items, current_index)))
    /\ n < Len(items)
    /\ current_index = n
    /\ \A k \in 1..n : items[k].state = READY /\ Cached(items[k].file_path)
                        /\ subtitle_cache[items[k].file_path] = Manager(items[k].file_path)
    /\ \A k \in (n + 1)..Len(items) : ~Cached(items[k].file_path)
    /\ items[n + 1].state = PROCESSING
    /\ \A k \in (n + 2)..Len(items) : items[k].state = PENDING
    /\ \A t \in threads : t.cur /\ t.file_path = items[n + 1].file_path
    /\ \A k \in 1..Len(events) :
        /\ events[k].run = CURRENT
        /\ events[k].kind = "processing_complete"
        /\ events[k].file_path = items[n + 1].file_path
    /\ threads # {} \/ events # <<>>
    /\ Len(events) <= 1
    /\ events # <<>> => \A t \in threads : t.emitted

AutoDone ==
    /\ ~auto_processing
    /\ \A k \in 1..Len(items) : items[k].state = READY /\ Cached(items[k].file_path)
                                 /\ subtitle_cache[items[k].file_path] = Manager(items[k].file_path)
    /\ events = <<>>

\* Auto mode is switched on with no item of the queue cached.
Triggered == ~auto_processing /\ auto_processing' /\ \A k \in 1..Len(items') : items'[k].file_path \notin DOMAIN subtitle_cache'

\* C7: auto mode switched on over a queue with no cached item starts at item
\* 0; while the user does nothing it stays at its item or moves to the next
\* one in queue order, the items before it being Ready and cached; and it
\* eventually ends with every item Ready and cached.
C7_AutoInOrder ==
    /\ [][Triggered => AutoAt(0)']_vars
    /\ [][\A n \in 0..(MAX_FILES - 1) :
            (AutoAt(n) /\ nops' = nops) => (AutoAt(n)' \/ AutoAt(n + 1)' \/ (n + 1 = Len(items) /\ AutoDone'))]_vars
    /\ \A n \in OpCounts :
        (nops = n /\ \E i \in 0..(MAX_FILES - 1) : AutoAt(i)) ~> (nops # n \/ AutoDone)

\* Auto mode has ended after one addition of two files: both are Ready.
C7_Witness == nops = 1 /\ Len(items) = 2 /\ AutoDone /\ threads = {}

\* A step in which the user adds files while auto mode is active and a run is
\* in flight.
AddsDuringAuto ==
    /\ nops' = nops + 1
    /\ Len(items') > Len(items)
    /\ auto_processing
    /\ \E t \in threads : ~t.emitted

\* C8: adding files while auto mode is active neither cancels nor restarts
\* the run in flight.
C8_AddDuringAuto == [][AddsDuringAuto => threads' = threads]_vars

\* ----------------------------------------------- ProcessingWorker.run alone
run_vars == <<items, current_index, subtitle_cache, auto_processing, worker, threads, events, audio_player, nops, caption, batch, call, prefs>>
Running == run.pc \notin {"idle", "done", "terminated"}

\* _start_processing builds a worker for a queued file and the language chosen
\* in the selector, and starts it.
RunStart ==
    /\ ~Running
    /\ \E file_path \in AudioPaths, source_lang \in SUPPORTED_LANGUAGES :
        run' = ProcessingWorker(file_path, source_lang)
    /\ UNCHANGED run_vars

\* The call at the current position returns and run() goes on to the next.
RunStep ==
    /\ Running
    /\ \E segments \in 0..1 : run' = step(run, segments)
    /\ UNCHANGED run_vars

\* The call at the current position raises; an except clause of run() catches it.
RunRaise ==
    /\ Running
    /\ run.pc \in Raising(run)
    /\ run' = processing_error(run)
    /\ UNCHANGED run_vars

\* QThread.terminate() from the foreground: the run is cancelled where it is.
RunTerminate ==
    /\ Running
    /\ run' = goto(run, "terminated")
    /\ UNCHANGED run_vars

NextRun ==
    \/ RunStart
    \/ RunStep
    \/ RunRaise
    \/ RunTerminate

SpecRun == Init /\ [][NextRun]_vars

\* The positions in run.log of the terminal signals, and of the progress signals.
Terminals == {k \in 1..Len(run.log) : run.log[k].kind \in {"processing_complete", "processing_error"}}
Progress == {k \in 1..Len(run.log) : run.log[k].kind = "progress_updated"}

\* C11: a run of ProcessingWorker.run that is not cancelled emits exactly one
\* terminal signal, processing_complete or processing_error and never both,
\* and that signal is the last the run emits: no progress_updated follows it.
\* While the run is under way it has emitted no terminal signal yet.
C11_OneTerminalEvent ==
    /\ Cardinality(Terminals) <= 1
    /\ \A k \in Terminals : k = Len(run.log)
    /\ run.pc = "done" => Cardinality(Terminals) = 1
    /\ Running => Terminals = {}

\* A run that got through recognition with no segment, and so ended in
\* processing_error after its progress signals.
C11_Witness ==
    /\ run.pc = "done"
    /\ run.segments = 0
    /\ Len(run.log) > 1
    /\ run.log[Len(run.log)].kind = "processing_error"
    /\ run.log[Len(run.log) - 1] = [kind |-> "progress_updated", value |-> 700]

\* The stage of the pipeline a position of run() belongs to.
LoadPositions == {"load_file"}
RecognitionPositions == {"recognize", "_load_model", "_convert_to_wav", "transcribe", "_convert_segments", "segments"}
LastProgress == run.log[Len(run.log)].value

\* C12: within one run the progress fractions are emitted in non-decreasing
\* order and lie in [0, 1]; loading reports at most 0.10, recognition reports
\* from 0.10 to 0.70 (0.10 + 0.6 p), translation starts at 0.75 and
\* finalisation at 0.95; on success the last progress value is 1.0 and it
\* comes right before processing_complete.
C12_ProgressMonotone ==
    /\ \A k \in Progress : 0 <= run.log[k].value /\ run.log[k].value <= 1000
    /\ \A j, k \in Progress : j < k => run.log[j].value <= run.log[k].value
    /\ run.pc \in LoadPositions => LastProgress <= 100
    /\ run.pc \in RecognitionPositions => 100 <= LastProgress /\ LastProgress <= 700
    /\ run.pc = "translate_batch" => LastProgress = 750
    /\ run.pc = "SubtitleManager" => LastProgress = 950
    /\ \A k \in Terminals :
        run.log[k].kind = "processing_complete" =>
            /\ k - 1 \in Progress
            /\ run.log[k - 1].value = 1000
            /\ k - 1 = CHOOSE j \in Progress : \A i \in Progress : i <= j

\* A run of a file that needed conversion to WAV and succeeded, all eleven
\* progress values emitted.
C12_Witness ==
    /\ run.pc = "done"
    /\ lower(run.file_path.ext) # ".wav"
    /\ Len(run.log) = 12
    /\ run.log[Len(run.log)].kind = "processing_complete"
    /\ run.log[4].value = 220

\* ------------------------------------------------- FileQueue, call by call
\* The queue the program holds, and the same queue with every item replaced
\* by the position it has now: after an operation, the number found at a
\* position tells which item of the queue before stands there.
TheQueue == Q(items, current_index)
Positions == [k \in 1..Len(items) |-> k - 1]
ByPosition == Q(Positions, current_index)

\* C13: after a successful move_file(from_index, to_index) current_index
\* refers to the same item as before: it becomes to_index if it was
\* from_index, goes down by one if the item moved from before it to its
\* position or after, up by one if the item moved from after it to its
\* position or before, and is unchanged otherwise, -1 included.
C13_MoveTracksCurrent ==
    \A from_index, to_index \in Indices :
        LET r == move_file(TheQueue, from_index, to_index)
            t == move_file(ByPosition, from_index, to_index)
            c == current_index
            ci == r.q.current_index
        IN r.ret =>
            /\ c = -1 => ci = -1
            /\ c # -1 => InRange(ci, r.q.items) /\ At(t.q.items, t.q.current_index) = c
            /\ c = from_index => ci = to_index
            /\ (from_index < c /\ c <= to_index) => ci = c - 1
            /\ (to_index <= c /\ c < from_index) => ci = c + 1
            /\ (c < from_index /\ c < to_index) \/ (c > from_index /\ c > to_index) => ci = c

\* A queue of four whose cursor is inside: an item can move from either side
\* of the cursor to the other, or be the cursor's own item.
C13_Witness ==
    /\ Len(items) = 4
    /\ current_index = 2
    /\ move_file(TheQueue, 0, 3).q.current_index = 1
    /\ move_file(TheQueue, 3, 2).q.current_index = 3
    /\ move_file(TheQueue, 2, 0).q.current_index = 0

\* C14: a successful move_file(from_index, to_index) puts the moved item at
\* to_index and keeps the other items in their order; the items are the same
\* and so are their states. move(0, 2) on [A, B, C] with the cursor at 0 gives
\* [B, C, A] with the cursor at 2.
C14_MoveReorders ==
    \A from_index, to_index \in Indices :
        LET r == move_file(TheQueue, from_index, to_index)
            t == move_file(ByPosition, from_index, to_index)
        IN r.ret =>
            /\ Len(r.q.items) = Len(items)
            /\ At(r.q.items, to_index) = At(items, from_index)
            /\ Pop(r.q.items, to_index) = Pop(items, from_index)
            /\ At(t.q.items, to_index) = from_index
            /\ Pop(t.q.items, to_index) = Pop(Positions, from_index)
            /\ (Len(items) = 3 /\ current_index = 0 /\ from_index = 0 /\ to_index = 2)
                    => t.q = Q(<<1, 2, 0>>, 2)

\* A queue [A, B, C] of three items in three different states with the cursor
\* at 0, where move(0, 2) gives [B, C, A] with the cursor at 2.
C14_Witness ==
    /\ Len(items) = 3
    /\ current_index = 0
    /\ items[1].state = READY /\ items[2].state = PROCESSING /\ items[3].state = PENDING
    /\ move_file(TheQueue, 0, 2).q = Q(<<items[2], items[3], items[1]>>, 2)

\* C15: after a successful remove_file(index) current_index refers to the
\* same item as before if that item was not the one removed; if the current
\* item was removed it refers to the item that followed it, or to the new
\* last item if the removed one was last, or is -1 if the queue is now empty.
C15_RemoveRepairsCurrent ==
    \A index \in Indices :
        LET r == remove_file(TheQueue, index)
            t == remove_file(ByPosition, index)
            c == current_index
            ci == r.q.current_index
            n == Len(items)
        IN r.ret =>
            /\ ci = t.q.current_index
            /\ c = -1 => ci = -1
            /\ (c # -1 /\ c # index) => InRange(ci, r.q.items) /\ At(t.q.items, ci) = c
            /\ (c = index /\ index < n - 1) => InRange(ci, r.q.items) /\ At(t.q.items, ci) = index + 1
            /\ (c = index /\ index = n - 1 /\ n > 1) => ci = Len(r.q.items) - 1
            /\ (c = index /\ n = 1) => ci = -1 /\ r.q.items = <<>>

\* A queue of three with the cursor in the middle: the removal of the item
\* before it, of the item after it and of its own item are all possible.
C15_Witness ==
    /\ Len(items) = 3
    /\ current_index = 1
    /\ remove_file(TheQueue, 0).q.current_index = 0
    /\ remove_file(TheQueue, 1).q.current_index = 1
    /\ remove_file(TheQueue, 2).q.current_index = 1

Min(a, b) == IF a <= b THEN a ELSE b

\* C16: add_files(file_paths) admits, in the order given, the paths with a
\* supported extension while the queue holds fewer than MAX_FILES items,
\* appends them at the tail as Pending items and drops the others; it returns
\* the number admitted, min(number of supported paths given, MAX_FILES - len
\* before); the items already queued, their states and current_index are
\* unchanged.
C16_AddAdmitsInOrder ==
    \A file_paths \in SeqsOf(AllPaths, 0, MaxAddLen) :
        LET r == add_files(TheQueue, file_paths)
            valid == SelectSeq(file_paths, _is_valid_format)
            n == Min(Len(valid), MAX_FILES - Len(items))
        IN /\ r.ret = n
           /\ r.q.items = items \o [k \in 1..n |-> [file_path |-> valid[k], state |-> PENDING]]
           /\ r.q.current_index = current_index

\* A queue with one free place, an item in a state other than Pending and a
\* cursor: of two supported paths given, the first is admitted.
C16_Witness ==
    /\ Len(items) = MAX_FILES - 1
    /\ current_index = 1
    /\ \E k \in 1..Len(items) : items[k].state = READY
    /\ \E a, b \in AudioPaths :
        /\ a # b
        /\ add_files(TheQueue, <<a, b>>).ret = 1
        /\ add_files(TheQueue, <<a, b>>).q.items = Append(items, PlaylistItem(a))

\* C17: remove_file, move_file, set_current_index and set_file_state called
\* with an index out of range return False and leave the items, their states
\* and current_index as they were; move_file with from_index = to_index in
\* range returns True and changes nothing.
C17_OutOfRangeRejected ==
    LET q == TheQueue
        Unchanged(r) == r.ret = FALSE /\ r.q = q
    IN \A index \in Indices : \A other \in Indices : \A state \in FileState :
        /\ ~InRange(index, items) =>
            /\ Unchanged(remove_file(q, index))
            /\ Unchanged(move_file(q, index, other))
            /\ Unchanged(move_file(q, other, index))
            /\ Unchanged(set_current_index(q, index))
            /\ Unchanged(set_file_state(q, index, state))
        /\ InRange(index, items) => move_file(q, index, index) = [q |-> q, ret |-> TRUE]

\* A queue of two with a cursor and a Processing item, where both an index
\* below the range and indices above it exist.
C17_Witness ==
    /\ Len(items) = 2
    /\ current_index = 1
    /\ items[1].state = PROCESSING
    /\ set_current_index(TheQueue, 2).ret = FALSE
    /\ remove_file(TheQueue, -1).ret = FALSE

\* C18: a successful set_file_state(index, PROCESSING) leaves the item at
\* index Processing and every other item that was Processing Pending;
\* set_file_state changes the state of no further item, nor any path, the
\* order, the length or current_index; with a state other than Processing
\* it changes the item at index only.
C18_SetStateFrame ==
    \A index \in Indices : \A state \in FileState :
        LET r == set_file_state(TheQueue, index, state)
            demotes(k) == state = PROCESSING /\ items[k].state = PROCESSING
        IN r.ret =>
            /\ Len(r.q.items) = Len(items)
            /\ r.q.current_index = current_index
            /\ \A k \in 1..Len(items) : r.q.items[k].file_path = items[k].file_path
            /\ At(r.q.items, index).state = state
            /\ \A k \in 1..Len(items) :
                k - 1 # index => r.q.items[k].state = (IF demotes(k) THEN PENDING ELSE items[k].state)

\* A queue whose first item is Processing, whose cursor is elsewhere and whose
\* last item is Ready: writing Processing onto the last demotes the first,
\* writing Completed onto it leaves the first Processing.
C18_Witness ==
    /\ Len(items) = 3
    /\ current_index = 1
    /\ items[1].state = PROCESSING /\ items[2].state = READY /\ items[3].state = READY
    /\ set_file_state(TheQueue, 2, PROCESSING).q.items[1].state = PENDING
    /\ set_file_state(TheQueue, 2, COMPLETED).q.items[1].state = PROCESSING

\* The queue with every path replaced by the position of its item.
PathsByPosition == Q([k \in 1..Len(items) |-> [file_path |-> k - 1, state |-> items[k].state]], current_index)

\* C19: get_next_file moves the cursor forward by one and returns the path of
\* the item then at the cursor if current_index < len - 1; otherwise it
\* returns None and leaves the cursor where it is; it never changes the items.
C19_NextAdvancesByOne ==
    LET r == get_next_file(TheQueue)
        t == get_next_file(PathsByPosition)
    IN /\ r.q.items = items
       /\ current_index < Len(items) - 1 =>
            /\ r.q.current_index = current_index + 1
            /\ r.ret = At(items, current_index + 1).file_path
            /\ r.ret = current_file(r.q)
            /\ t.ret = current_index + 1
       /\ ~(current_index < Len(items) - 1) =>
            /\ r.ret = None
            /\ r.q.current_index = current_index

\* A queue of three with the cursor at 1: the call moves it to the last item,
\* and a second call returns None.
C19_Witness ==
    /\ Len(items) = 3
    /\ current_index = 1
    /\ get_next_file(TheQueue).q.current_index = 2
    /\ get_next_file(get_next_file(TheQueue).q) = [q |-> Q(items, 2), ret |-> None]

\* The changes of state the lifecycle of an item allows.
Lifecycle ==
    {<<PENDING, PROCESSING>>, <<PROCESSING, READY>>, <<PROCESSING, PENDING>>,
     <<READY, PLAYING>>, <<PLAYING, COMPLETED>>, <<PLAYING, READY>>}

\* C20: an item that joins the queue is Pending, and every later change of an
\* item's state is a step of the lifecycle Pending -> Processing,
\* Processing -> Ready, Processing -> Pending, Ready -> Playing,
\* Playing -> Completed, Playing -> Ready; a Completed item never changes
\* state again. The handler that adds a file may start its processing before
\* it returns, so an item is Pending or Processing when first seen. Steps other
\* than the user's edits of the queue leave every item at its position, so the
\* item at k before is the item at k after.
C20_Lifecycle ==
    [][/\ \A k \in (Len(items) + 1)..Len(items') :
            items'[k].state \in {PENDING, PROCESSING}
       /\ (nops' = nops /\ Len(items') = Len(items)) =>
            \A k \in 1..Len(items) :
                items'[k].state # items[k].state => <<items[k].state, items'[k].state>> \in Lifecycle]_vars

\* Playback starts in this step, the current item being Ready and staying the
\* current item.
PlaybackStarts ==
    /\ audio_player.state # "playing"
    /\ audio_player'.state = "playing"
    /\ InRange(current_index, items)
    /\ At(items, current_index).state = READY
    /\ current_index' = current_index
    /\ Len(items') = Len(items)

\* C21: when playback of a Ready item starts the item becomes Playing (and
\* it is from Playing that it becomes Completed at the end of the media, or
\* Ready again when playback is stopped or another item is selected).
C21_PlayingWhilePlayed ==
    [][PlaybackStarts => At(items', current_index).state = PLAYING]_vars

\* C22: after a failure the item can be retried by selecting it again: once
\* the processing_error of a run for X has been handled, a click on X's item
\* in the queue leaves a run for X in flight.
C22_RetryBySelecting ==
    [][Delivers("processing_error") =>
        LET X == Head(events).file_path
        IN \A k \in 1..Len(items') :
            items'[k].file_path = X => InFlight(_on_item_clicked(W', k - 1).threads, X)]_vars

\* C23: once a result is stored for X, a lookup of X returns the stored
\* result unchanged after any number of reads of the cache, playbacks,
\* and changes of the queue: every step other than the handling of a
\* completion leaves every entry of the cache as it is.
C23_CacheStable ==
    [][~Delivers("processing_complete") =>
        \A X \in DOMAIN subtitle_cache :
            X \in DOMAIN subtitle_cache' /\ subtitle_cache'[X] = subtitle_cache[X]]_vars

\* Two results are stored, each under its own file, the user has edited the
\* queue since the first was stored, and the first item is playing.
C23_Witness ==
    /\ Cardinality(DOMAIN subtitle_cache) = 2
    /\ \A X \in DOMAIN subtitle_cache : subtitle_cache[X] = Manager(X)
    /\ Len(items) = 2
    /\ items[1].file_path.stem < items[2].file_path.stem
    /\ current_index = 0
    /\ auto_processing = FALSE
    /\ audio_player.state = "playing"
    /\ audio_player.source = items[1].file_path

\* C24: the entries of the cache are written once: no entry is ever replaced
\* or removed, and the handling of a completion never writes under a key that
\* already has an entry (_on_complete writes under the current file).
C24_WriteOnce ==
    [][/\ \A X \in DOMAIN subtitle_cache :
            X \in DOMAIN subtitle_cache' /\ subtitle_cache'[X] = subtitle_cache[X]
       /\ Delivers("processing_complete") => current_file(TheQueue) \notin DOMAIN subtitle_cache]_vars

\* ------------------------------------------- the cache over many files
\* The user adds files never picked before, some at a time, removes items,
\* and every run succeeds.
NewFiles(n) ==
    LET first == CHOOSE s \in 1..(CacheStems + 1) : s \notin KnownStems /\ \A r \in 1..(s - 1) : r \in KnownStems
    IN [k \in 1..n |-> [stem |-> first + k - 1, ext |-> ExtOf(first + k - 1)]]

UserAddNew ==
    /\ UserInput(MaxCacheOps)
    /\ ~is_full(TheQueue)
    /\ \E n \in 1..MAX_FILES :
        /\ \A k \in 1..n : NewFiles(n)[k] \in CachePaths
        /\ Handled(widget_add_files(W, NewFiles(n)))

NextCache ==
    \/ UserAddNew
    \/ UserRemove(MaxCacheOps)
    \/ WorkerComplete
    \/ WorkerFinish
    \/ Deliver

SpecCache == Init /\ [][NextCache]_vars

\* C25: the cache never holds more than MAX_FILES entries, whatever the adds,
\* the removals and the completed runs.
C25_CacheBounded == Cardinality(DOMAIN subtitle_cache) <= MAX_FILES

\* The user adds files, new or picked before, removes items and selects
\* items, and every run succeeds.
NextReAdd ==
    \/ UserAdd(MaxReAddOps)
    \/ UserRemove(MaxReAddOps)
    \/ UserClick(MaxReAddOps)
    \/ WorkerComplete
    \/ WorkerFinish
    \/ Deliver

SpecReAdd == Init /\ [][NextReAdd]_vars

\* A click on item k of the queue as it is after the step.
ClickAfter(k) == _on_item_clicked(W', k)

\* C26: the removal of an item keeps its cache entry, and when the same path
\* is added again the entry is used: the add starts no run for it (the scan
\* for unprocessed files passes it over), a click on it starts no run, and a
\* click on it when it is not the current item loads the cached result.
C26_ReAddReusesCache ==
    [][\A X \in DOMAIN subtitle_cache :
        /\ (Queued(X) /\ ~Queued(X)') => X \in DOMAIN subtitle_cache' /\ subtitle_cache'[X] = subtitle_cache[X]
        /\ (~Queued(X) /\ Queued(X)') =>
            /\ X \in DOMAIN subtitle_cache' /\ subtitle_cache'[X] = subtitle_cache[X]
            /\ InFlight(threads', X) => InFlight(threads, X)
            /\ \A k \in 0..(Len(items') - 1) :
                At(items', k).file_path = X =>
                    /\ ClickAfter(k).threads = threads'
                    /\ ClickAfter(k).cache = subtitle_cache'
                    /\ k # current_index' =>
                        /\ ClickAfter(k).q.current_index = k
                        /\ ClickAfter(k).player.source = X
                        /\ ClickAfter(k).player.visible]_vars

\* A file was added, its result was stored, it was removed and it has been
\* added again together with a new file: it is Pending and current, loaded
\* from the cache into the player, while the new file is being processed.
C26_Witness ==
    /\ nops = 3
    /\ Len(items) = 2
    /\ current_index = 0
    /\ items[1].state = PENDING
    /\ items[1].file_path \in DOMAIN subtitle_cache
    /\ audio_player.source = items[1].file_path
    /\ audio_player.visible
    /\ items[2].state = PROCESSING
    /\ items[2].file_path \notin DOMAIN subtitle_cache
    /\ InFlight(threads, items[2].file_path)

\* --------------------------------------------- SubtitleManager queried alone
caption_vars == <<items, current_index, subtitle_cache, auto_processing, worker, threads, events, audio_player, nops, run, batch, call, prefs>>

\* The list [(0,2), (2,4), (5,7)] in seconds.
Example == <<[start_time |-> 0, end_time |-> 4], [start_time |-> 4, end_time |-> 8], [start_time |-> 10, end_time |-> 14]>>

\* The segment lists a manager is built from: any list of up to MaxSegments
\* segments, start before end or not, in any order; the lists of
\* MaxSegments + 1 segments that are ordered by start time and do not overlap;
\* and the example.
Sorted(segments) ==
    \A i \in 1..(Len(segments) - 1) : segments[i].start_time <= segments[i + 1].start_time
Overlap(a, b) == a.start_time < b.end_time /\ b.start_time < a.end_time
NonOverlapping(segments) ==
    \A i, j \in 1..Len(segments) : i < j => ~Overlap(segments[i], segments[j])
WellFormed(segments) == \A i \in 1..Len(segments) : segments[i].start_time <= segments[i].end_time
OrderedLists ==
    {l \in SeqsOf(Segments, MaxSegments + 1, MaxSegments + 1) : WellFormed(l) /\ Sorted(l) /\ NonOverlapping(l)}
CaptionLists == SeqsOf(Segments, 0, MaxSegments) \cup OrderedLists \cup {Example}

\* The times a list is queried at: from 0 to one tick past its last time.
LastTime(segments) ==
    LET ts == {0} \cup {segments[k].start_time : k \in 1..Len(segments)} \cup {segments[k].end_time : k \in 1..Len(segments)}
    IN CHOOSE t \in ts : \A u \in ts : u <= t
QueryTimes(segments) == 0..(LastTime(segments) + 1)

\* A manager is built from a list of segments.
CaptionLoad ==
    /\ ~caption.loaded
    /\ \E segments \in CaptionLists : caption' = SubtitleManager(segments)
    /\ UNCHANGED caption_vars

\* The view asks the manager for the segment at the playback time.
CaptionQuery ==
    /\ caption.loaded
    /\ \E current_time \in QueryTimes(caption.segments) :
        caption' = [caption EXCEPT !.time = current_time,
                                   !.index = get_current_index(caption.segments, current_time)]
    /\ UNCHANGED caption_vars

NextCaption ==
    \/ CaptionLoad
    \/ CaptionQuery

SpecCaption == Init /\ [][NextCaption]_vars

\* Segment i of the manager holds the time of the last query.
Holds(i) ==
    /\ At(caption.segments, i).start_time <= caption.time
    /\ caption.time < At(caption.segments, i).end_time
Queried == caption.loaded /\ caption.time >= 0

\* C27: for every list of segments and every time t, get_current_index
\* returns the smallest i with segments[i].start_time <= t <
\* segments[i].end_time, and -1 if there is none: before the first segment, in
\* a gap, at or after the end of the last segment, for the empty list. For
\* [(0,2), (2,4), (5,7)] it returns 0 at 1 s, 1 at 2 s, -1 at 4.5 s and at 7 s.
C27_CaptionIndex ==
    Queried =>
        LET holding == {i \in 0..(Len(caption.segments) - 1) : Holds(i)}
        IN /\ holding = {} => caption.index = -1
           /\ holding # {} => caption.index \in holding /\ \A j \in holding : caption.index <= j
           /\ caption.segments = Example =>
                /\ caption.time = 2 => caption.index = 0
                /\ caption.time = 4 => caption.index = 1
                /\ caption.time = 9 => caption.index = -1
                /\ caption.time = 14 => caption.index = -1

\* The example list queried at 7 s, the end of its last segment.
C27_Witness ==
    /\ Queried
    /\ caption.segments = Example
    /\ caption.time = 14
    /\ caption.index = -1

\* A binary search for the segment that holds current_time, between the
\* positions lo and hi: left of a segment that starts after the time, right of
\* one that has ended by then.
RECURSIVE BinarySearch(_, _, _, _)
BinarySearch(segments, current_time, lo, hi) ==
    IF lo > hi THEN -1
    ELSE LET mid == (lo + hi) \div 2
         IN IF current_time < At(segments, mid).start_time
                THEN BinarySearch(segments, current_time, lo, mid - 1)
            ELSE IF current_time >= At(segments, mid).end_time
                THEN BinarySearch(segments, current_time, mid + 1, hi)
            ELSE mid
Searched == BinarySearch(caption.segments, caption.time, 0, Len(caption.segments) - 1)

\* Every segment ends no later than the next one starts.
Consecutive(segments) ==
    \A i \in 1..(Len(segments) - 1) : segments[i].end_time <= segments[i + 1].start_time

\* C28: for every list of segments that is ordered by start time and has no
\* two overlapping segments, and for every time, the linear scan of
\* get_current_index returns what a binary search for the segment holding the
\* time returns, lists with segments of length zero included.
C28_ScanIsBinarySearch ==
    (Queried /\ WellFormed(caption.segments) /\ Sorted(caption.segments) /\ NonOverlapping(caption.segments))
        => caption.index = Searched

\* C28, amended: the same for every list in which each segment starts no
\* later than it ends and ends no later than the next one starts.
C28_ScanIsBinarySearchConsecutive ==
    (Queried /\ WellFormed(caption.segments) /\ Consecutive(caption.segments))
        => caption.index = Searched

\* A list of three segments, the middle one of length zero, each ending where
\* the next starts at the latest, queried at a time the last segment holds.
C28_Witness ==
    /\ Queried
    /\ Len(caption.segments) = 3
    /\ WellFormed(caption.segments) /\ Consecutive(caption.segments)
    /\ caption.segments[2].start_time = caption.segments[2].end_time
    /\ caption.index = 2
    /\ Searched = 2

\* ------------------------------------------------------------ translate_batch
batch_vars == <<items, current_index, subtitle_cache, auto_processing, worker, threads, events, audio_player, nops, run, caption, call, prefs>>

\* translate_batch is called with a transcript of up to MaxBatchLen segments
\* and a pair of languages.
TranslateBatch ==
    /\ batch.pc = "idle"
    /\ \E n \in 0..MaxBatchLen, source_lang \in SUPPORTED_LANGUAGES, target_lang \in SUPPORTED_LANGUAGES :
        batch' = translate_batch(Transcript(n, source_lang), source_lang, target_lang)
    /\ UNCHANGED batch_vars

\* The loop of translate_batch translates the next batch.
TranslateNextBatch ==
    /\ batch.pc = "loop"
    /\ \E outcome \in Outcomes : batch' = translate_next_batch(batch, outcome)
    /\ UNCHANGED batch_vars

NextBatch ==
    \/ TranslateBatch
    \/ TranslateNextBatch

SpecBatch == Init /\ [][NextBatch]_vars

Returned == batch.pc = "done"

\* C29: when the source language is the target language, translate_batch
\* sends no request to the backend, and returns for every segment handed in,
\* however many there are, a segment whose translated text is the original
\* text, which is the text of the segment handed in.
C29_SameLanguagePassthrough ==
    (batch.pc # "idle" /\ batch.source_lang = batch.target_lang) =>
        /\ batch.calls = 0
        /\ Returned
        /\ Len(batch.all_results) = Len(batch.segments)
        /\ \A k \in 1..Len(batch.all_results) :
            /\ batch.all_results[k].translated_text = batch.all_results[k].original_text
            /\ batch.all_results[k].original_text = batch.segments[k].text

\* A transcript of more than two batches has come back from a call with one
\* language, a segment of words among them.
C29_Witness ==
    /\ Returned
    /\ batch.source_lang = batch.target_lang
    /\ Len(batch.segments) > 2 * BATCH_SIZE
    /\ Len(batch.all_results) = Len(batch.segments)
    /\ batch.all_results[3].translated_text = 3
    /\ batch.calls = 0

\* C30: for every transcript and every pair of languages, whatever the
\* batches of BATCH_SIZE are and whichever of them fail, the list that
\* translate_batch returns is as long as the transcript, and its element at
\* each position has the start time, the end time and, as original text, the
\* text of the transcript's segment at that position; while the loop runs the
\* results gathered are the ones of the segments before batch_start.
C30_SameLengthAndOrder ==
    batch.pc # "idle" =>
        LET done == IF Returned THEN Len(batch.segments) ELSE batch.batch_start
        IN /\ Len(batch.all_results) = done
           /\ \A k \in 1..Len(batch.all_results) :
                k <= Len(batch.segments) =>
                    /\ batch.all_results[k].start_time = batch.segments[k].start_time
                    /\ batch.all_results[k].end_time = batch.segments[k].end_time
                    /\ batch.all_results[k].original_text = batch.segments[k].text

\* A transcript of three batches has come back from a call with two
\* languages: the first batch was translated, the second failed with
\* TranslatorError after max_retries attempts and kept its texts, the reply to
\* the third had every number one too high.
C30_Witness ==
    /\ Returned
    /\ batch.source_lang # batch.target_lang
    /\ Len(batch.segments) > 2 * BATCH_SIZE
    /\ Len(batch.outcomes) = 3
    /\ batch.outcomes[1].ok /\ batch.outcomes[1].kind = "full"
    /\ ~batch.outcomes[2].ok
    /\ batch.outcomes[3].ok /\ batch.outcomes[3].kind = "shifted"
    /\ Len(batch.all_results) = Len(batch.segments)
    /\ batch.all_results[3].translated_text = Translated(3)
    /\ batch.all_results[BATCH_SIZE + 1].translated_text = batch.segments[BATCH_SIZE + 1].text

\* The batch a position of the transcript is in (from 1), the segments of that
\* batch, and the lines of the reply to it that are numbered for the position.
BatchOf(k) == ((k - 1) \div BATCH_SIZE) + 1
SegmentsOf(c) ==
    SubSeq(batch.segments, (c - 1) * BATCH_SIZE + 1,
           IF c * BATCH_SIZE < Len(batch.segments) THEN c * BATCH_SIZE ELSE Len(batch.segments))
EntriesFor(k) ==
    LET c == BatchOf(k)
        reply == IF batch.outcomes[c].ok THEN Reply(SegmentsOf(c), batch.outcomes[c].kind) ELSE <<>>
    IN SelectSeq(reply, LAMBDA line : ~line.long /\ line.n = k - (c - 1) * BATCH_SIZE)

\* C31: a call of translate_batch with two languages does not end with an
\* exception, and every segment it has gathered whose batch failed after
\* max_retries attempts, or got a reply with no line of the segment's number,
\* has its original text as translated text, while every other segment has
\* the content of the last line of its number in the reply to its own batch.
C31_FallbackToOriginal ==
    batch.pc # "idle" =>
        /\ batch.pc # "raised"
        /\ \A k \in 1..Len(batch.all_results) :
            (batch.source_lang # batch.target_lang /\ BatchOf(k) <= Len(batch.outcomes)) =>
                IF EntriesFor(k) = <<>>
                    THEN batch.all_results[k].translated_text = batch.all_results[k].original_text
                    ELSE batch.all_results[k].translated_text = EntriesFor(k)[Len(EntriesFor(k))].content

\* The second part of C31 alone.
C31_Fallback ==
    batch.pc # "idle" =>
        /\ \A k \in 1..Len(batch.all_results) :
            (batch.source_lang # batch.target_lang /\ BatchOf(k) <= Len(batch.outcomes)) =>
                IF EntriesFor(k) = <<>>
                    THEN batch.all_results[k].translated_text = batch.all_results[k].original_text
                    ELSE batch.all_results[k].translated_text = EntriesFor(k)[Len(EntriesFor(k))].content

\* C33: at the end of the media the current item becomes Completed; when an
\* item follows it, the cursor moves to that item, one position on, the item
\* becomes Processing and a run for its file is in flight as the window's
\* worker; when the current item is the last one, the cursor stays, the
\* threads and the worker are as before and no other item changes.
C33_AdvanceByOne ==
    [][EndOfMedia =>
        LET i == current_index
            last == Len(items) - 1
        IN /\ Len(items') = Len(items)
           /\ \A k \in 1..Len(items) : items'[k].file_path = items[k].file_path
           /\ IF i < last
              THEN /\ current_index' = i + 1
                   /\ InRange(i, items) => At(items', i).state = COMPLETED
                   /\ At(items', i + 1).state = PROCESSING
                   /\ worker' = [file_path |-> At(items, i + 1).file_path]
                   /\ InFlight(threads', At(items, i + 1).file_path)
              ELSE /\ current_index' = i
                   /\ InRange(i, items) => At(items', i).state = COMPLETED
                   /\ threads' = threads
                   /\ worker' = worker
                   /\ \A k \in 0..last : k # i => At(items', k) = At(items, k)]_vars

\* The first of two items was played to its end: it is Completed, the cursor
\* is on the second item, which is Processing with its run in flight, and the
\* player still holds the first file.
C33_Witness ==
    /\ Len(items) = 2
    /\ items[1].state = COMPLETED
    /\ current_index = 1
    /\ items[2].state = PROCESSING
    /\ worker = [file_path |-> items[2].file_path]
    /\ InFlight(threads, items[2].file_path)
    /\ audio_player.source = items[1].file_path
    /\ audio_player.state = "stopped"

\* The only item was played to its end: it is Completed and current, and no
\* thread runs.
C33_WitnessLast ==
    /\ Len(items) = 1
    /\ items[1].state = COMPLETED
    /\ current_index = 0
    /\ threads = {}

\* ------------------------------------------------------------ _call_ollama
call_vars == <<items, current_index, subtitle_cache, auto_processing, worker, threads, events, audio_player, nops, run, caption, batch, prefs>>

\* _call_ollama is called with a prompt and the default max_retries.
CallOllama ==
    /\ call.pc = "idle"
    /\ \E prompt \in 1..NumPrompts : call' = [NoCall EXCEPT !.pc = "request", !.prompt = prompt]
    /\ UNCHANGED call_vars

\* The request of the attempt under way ends, one way or another.
AttemptEnds ==
    /\ call.pc = "request"
    /\ \E a \in Attempts : call' = attempt_request(call, a)
    /\ UNCHANGED call_vars

\* The wait after a failed attempt is over.
BackoffEnds ==
    /\ call.pc = "sleep"
    /\ call' = next_attempt(call)
    /\ UNCHANGED call_vars

NextCall ==
    \/ CallOllama
    \/ AttemptEnds
    \/ BackoffEnds

\* Every request ends (urlopen has a timeout of 120 s) and every wait ends.
SpecCall == Init /\ [][NextCall]_vars /\ WF_vars(AttemptEnds) /\ WF_vars(BackoffEnds)

Failed(a) == a.failure # NoFailure
CallOver == call.pc \in {"returned", "raised"}

\* What C32 says of every state of a call.
RetryBounded ==
    call.pc # "idle" =>
        /\ Len(call.log) <= max_retries
        /\ call.pc # "fell_through"
        /\ \A k \in 1..(Len(call.log) - 1) : Failed(call.log[k])
        /\ call.pc \in {"request", "sleep", "raised"} => \A k \in 1..Len(call.log) : Failed(call.log[k])
        /\ call.pc = "request" => Len(call.waits) = Len(call.log) /\ Len(call.log) < max_retries
        /\ call.pc = "sleep" => Len(call.waits) = Len(call.log) /\ Len(call.log) < max_retries
        /\ call.pc = "raised" => Len(call.log) = max_retries /\ Len(call.waits) = max_retries - 1
        /\ call.pc = "returned" =>
            /\ ~Failed(call.log[Len(call.log)])
            /\ call.result = response_of(call.log[Len(call.log)])
            /\ Len(call.waits) = Len(call.log) - 1
        /\ \A k \in 1..Len(call.waits) : call.waits[k] > 0

\* C32: a call of _call_ollama makes at most max_retries = 3 requests, each
\* but the last made after a failed one and a wait of more than no time; the
\* first request that succeeds ends the call with its response as the result;
\* when all three fail the call ends with TranslatorError; and every call
\* ends, given that every request and every wait ends.
C32_BoundedRetries ==
    /\ []RetryBounded
    /\ [](call.pc # "idle" => <>CallOver)

\* A call that returned the response of its third request, after two failed
\* ones and two waits.
C32_Witness ==
    /\ call.pc = "returned"
    /\ Len(call.log) = max_retries
    /\ Failed(call.log[1]) /\ Failed(call.log[2])
    /\ call.waits = <<3, 6>>
    /\ call.result > 0

\* A call that raised TranslatorError after three failed requests.
C32_WitnessRaised ==
    /\ call.pc = "raised"
    /\ Len(call.log) = max_retries
    /\ call.waits = <<3, 6>>

\* --------------------------------------------------------- LanguageSelector
prefs_vars == <<items, current_index, subtitle_cache, auto_processing, worker, threads, events, audio_player, nops, run, caption, batch, call>>

\* A LanguageSelector is constructed with the path of a preference file.
SelectorInit ==
    /\ prefs.pc = "idle"
    /\ \E file \in PrefFiles : prefs' = LanguageSelector(file)
    /\ UNCHANGED prefs_vars

\* Its constructor calls _load_preferences.
LoadPreferences ==
    /\ prefs.pc = "init"
    /\ prefs' = _load_preferences(prefs)
    /\ UNCHANGED prefs_vars

NextPrefs ==
    \/ SelectorInit
    \/ LoadPreferences

SpecPrefs == Init /\ [][NextPrefs]_vars

\* C34: _load_preferences raises nothing, whatever the preference file is
\* (missing, unreadable, no JSON, JSON that is no object, codes that are not
\* supported), and leaves each of the two languages at the file's code when
\* that is a supported one and at its default, ja or zh, otherwise, so that
\* both are supported codes.
C34_LoadNeverFails ==
    /\ prefs.pc # "raised"
    /\ prefs.pc = "loaded" =>
        /\ prefs.source_lang =
            (IF prefs.file.content = "object" /\ supported(prefs.file.source_language)
                THEN prefs.file.source_language.code ELSE "ja")
        /\ prefs.target_lang =
            (IF prefs.file.content = "object" /\ supported(prefs.file.target_language)
                THEN prefs.file.target_language.code ELSE "zh")
        /\ prefs.source_lang \in SUPPORTED_LANGUAGES
        /\ prefs.target_lang \in SUPPORTED_LANGUAGES

\* The second part of C34 alone: what a load that returns leaves behind.
C34_FallbackByField ==
    prefs.pc = "loaded" =>
        /\ prefs.source_lang =
            (IF prefs.file.content = "object" /\ supported(prefs.file.source_language)
                THEN prefs.file.source_language.code ELSE "ja")
        /\ prefs.target_lang =
            (IF prefs.file.content = "object" /\ supported(prefs.file.target_language)
                THEN prefs.file.target_language.code ELSE "zh")

\* The run has got the segments of the recognizer (the last progress of the
\* recognition stage, 0.7, is out) and there are none.
Signalled(kind) == \E k \in 1..Len(run.log) : run.log[k].kind = kind
Reported(value) == \E k \in 1..Len(run.log) : run.log[k].kind = "progress_updated" /\ run.log[k].value = value
RecognizedNothing == Reported(700) /\ run.segments = 0 /\ run.pc # "_convert_segments"

\* The window in which the file of the run was added to the empty queue and
\* its run started, and the same window after the slot of processing_error.
WindowOfRun == widget_add_files(W, <<run.file_path>>)
AfterError == _on_error(WindowOfRun)

\* C35: a run whose recognizer returns no segments does not reach the
\* translation (no call of translate_batch, no progress 0.75) and emits no
\* processing_complete; when run() is over it has emitted processing_error as
\* its last signal, and the slot of that signal leaves the cache as it was, the
\* file without an entry, so the scan for the first file without an entry
\* finds the file's item.
C35_EmptyRecognitionFails ==
    RecognizedNothing =>
        /\ run.pc \in {"segments", "done", "terminated"}
        /\ ~Signalled("processing_complete")
        /\ ~Reported(750)
        /\ run.pc = "done" =>
            /\ run.log[Len(run.log)].kind = "processing_error"
            /\ InFlight(WindowOfRun.threads, run.file_path)
            /\ AfterError.cache = WindowOfRun.cache
            /\ run.file_path \notin DOMAIN AfterError.cache
            /\ InRange(first_unprocessed(AfterError), AfterError.q.items)
            /\ At(AfterError.q.items, first_unprocessed(AfterError)).file_path = run.file_path

\* A run that is over after its recognizer returned no segments.
C35_Witness ==
    /\ RecognizedNothing
    /\ run.pc = "done"
    /\ Signalled("processing_error")
    /\ run.file_path \notin DOMAIN AfterError.cache

\* C36: whenever a run is in flight, the file it processes is the file of the
\* item at the cursor, that item is Processing, and no other item is.
C36_RunIsForCurrentItem ==
    \A t \in threads :
        (t.cur /\ ~t.emitted) =>
            /\ InRange(current_index, items)
            /\ At(items, current_index).file_path = t.file_path
            /\ \A k \in 0..(Len(items) - 1) : At(items, k).state = PROCESSING <=> k = current_index

\* C37: between handlers, when auto mode is off every item of the queue has
\* an entry in the cache: auto mode is switched off only by a scan that finds
\* every item cached, and a change of the queue that leaves an item without
\* an entry while it is off switches it on again.
C37_IdleMeansAllCached ==
    ~auto_processing => \A k \in 1..Len(items) : items[k].file_path \in DOMAIN subtitle_cache

\* Auto mode has ended with two different files in the queue, both cached.
C37_Witness ==
    /\ ~auto_processing
    /\ Len(items) = 2
    /\ items[1].file_path # items[2].file_path
    /\ \A k \in 1..2 : items[k].file_path \in DOMAIN subtitle_cache

\* C38: an add of files to the empty queue, no run being alive, starts one
\* run, for the first item without a cache entry when there is one, and
\* terminates no run it has started itself.
C38_OneRunPerAdd ==
    [][(items = <<>> /\ threads = {} /\ items' # <<>>) =>
        LET first == first_unprocessed([W EXCEPT !.q.items = items'])
        IN /\ Cardinality(threads') <= 1
           /\ \A t \in threads' :
                /\ ~t.preempted
                /\ InRange(first, items')
                /\ t.file_path = At(items', first).file_path]_vars

\* C38 without its last part: the add leaves at most one run alive, and it is
\* for the first item without a cache entry.
C38_OneRunAlive ==
    [][(items = <<>> /\ threads = {} /\ items' # <<>>) =>
        LET first == first_unprocessed([W EXCEPT !.q.items = items'])
        IN /\ Cardinality(threads') <= 1
           /\ \A t \in threads' :
                /\ InRange(first, items')
                /\ t.file_path = At(items', first).file_path]_vars

\* C39: between the handlers of the window (adds, removes, moves, clicks on
\* items, the advance of auto mode and the advance at the end of playback),
\* current_index is -1 exactly when the queue is empty, and otherwise the
\* index of an item.
C39_CursorUnlessEmpty ==
    /\ current_index = -1 <=> items = <<>>
    /\ items # <<>> => InRange(current_index, items)

\* Two files were added and processed and one of them was removed: the item
\* left is the current one.
C39_Witness ==
    /\ nops = 2
    /\ Len(items) = 1
    /\ current_index = 0
    /\ Cardinality(DOMAIN subtitle_cache) = 2

====
